---- MODULE Spec2Model ----
(***************************************************************************)
(* World of Bits (GridCraft), src/src/main.ts: the token interaction       *)
(* rules, the flyweight / memento cell stores, movement, the render pass   *)
(* and localStorage persistence, as a state machine.                       *)
(*                                                                         *)
(* Geographic coordinates are integers counted in half cells: one grid     *)
(* cell is TILE_DEGREES = 2 units wide, so a position has a cell and a     *)
(* half-cell offset inside it.  The modelled world is a window of the      *)
(* earth-spanning grid, translated so that its south-west cell is (0,0).   *)
(***************************************************************************)
EXTENDS Integers, Sequences, FiniteSets, TLC

VARIABLES
    playerLatLng,            \* main.ts:102  [lat, lng]
    heldToken,               \* main.ts:103  number | null
    cellStates,              \* main.ts:94   flyweight: visible cell id -> tokenValue
    modifiedCellStates,      \* main.ts:99   memento: insertion-ordered Map of cell id -> value
    storage,                 \* localStorage[STORAGE_KEY]: a sequence holding no blob or one blob
    currentMovementStrategy, \* main.ts:104
    geo,                     \* the GeolocationMovementStrategy object: watchId set, lastReportedLatLng
    mapCenter,               \* centre of the Leaflet map view
    playerMarker,            \* main.ts:235  position of the player's marker on the map
    inputs,                  \* registered keydown handlers and position watches
    newGames,                \* how many times the new-game button was pressed
    last,                    \* history: the handler that ran last, the message it showed
                             \* and the strategy stop / init calls it made
    probe                    \* the arguments and results of a utility function applied
                             \* on its own (the specifications of the pure functions)

vars == <<playerLatLng, heldToken, cellStates, modifiedCellStates, storage,
          currentMovementStrategy, geo, inputs, mapCenter, playerMarker, newGames,
          last, probe>>

-----------------------------------------------------------------------------
(* Bounds of the model *)

\* the player stays in the cells (i, j) with 0 <= i <= PlayerMaxI, 0 <= j <= MaxJ
PlayerMaxI == 1
MaxJ == 1
\* StartNewGame is pressed at most MaxNewGames times
MaxNewGames == 1
\* the Modified-Cell Store holds at most MaxModified keys
MaxModified == 2
\* a craft is modelled while its result is at most 2^MaxTokenLog
MaxTokenLog == 2

-----------------------------------------------------------------------------
(* Constants and configuration, main.ts:36-50 *)

\* null of `number | null`; no token value is negative
Null == -1

\* grid cell size, in position units
TILE_DEGREES == 2
INTERACTION_RADIUS == 3
\* 0.15, in units of 1 / LuckScale
INITIAL_SPAWN_PROBABILITY == 15
\* base values of which one is no power of two
BASE_TOKEN_VALUES_WithThree == <<1, 3>>
BASE_TOKEN_VALUES == <<1, 2>>
WIN_CONDITION == 16384
TILE_THRESHOLD_METERS == 10

LatLng(lat, lng) == [lat |-> lat, lng |-> lng]

\* the window's translation of INITIAL_PLAYER_LATLNG: its cell is the window's
\* south-west cell, and inside the cell it lies in the southern and eastern
\* halves (36.9979369 = 369979.37 cells, -122.0570351 = -1220570.35 cells)
INITIAL_PLAYER_LATLNG == LatLng(0, 1)

\* the modelled window of the grid: cells (i, j) with 0 <= i <= MaxI, 0 <= j <= MaxJ;
\* its east-most column is out of reach from the west-most one
MaxI == PlayerMaxI + INTERACTION_RADIUS
WorldCells == (0..MaxI) \X (0..MaxJ)
\* the cells the user clicks on: the window's west-most and east-most columns
ClickCells == {c \in WorldCells : c[1] = 0 \/ c[1] = MaxI}
MaxLat == TILE_DEGREES * (MaxJ + 1) - 1
MaxLng == TILE_DEGREES * (PlayerMaxI + 1) - 1
Positions == [lat : 0..MaxLat, lng : 0..MaxLng]

RECURSIVE Pow2(_)
Pow2(n) == IF n = 0 THEN 1 ELSE 2 * Pow2(n - 1)
MaxToken == Pow2(MaxTokenLog)

Abs(x) == IF x < 0 THEN -x ELSE x
Max(a, b) == IF a > b THEN a ELSE b

-----------------------------------------------------------------------------
(* Coordinate utilities *)

\* main.ts:65-69; NULL_ISLAND_LATLNG is (0, 0)
latLngToGridCell(latlng) ==
    [i |-> latlng.lng \div TILE_DEGREES, j |-> latlng.lat \div TILE_DEGREES]

\* the `${i},${j}` key of both stores
CellId(i, j) == <<i, j>>

\* Distance with the Manhattan distance in place of the Chebyshev distance
Distance_Manhattan(i, j, player) ==
    LET playerCell == latLngToGridCell(player)
    IN  Abs(i - playerCell.i) + Abs(j - playerCell.j)

\* main.ts:384-387 (and 307-310)
Distance(i, j, player) ==
    LET playerCell == latLngToGridCell(player)
        iDelta == Abs(i - playerCell.i)
        jDelta == Abs(j - playerCell.j)
    IN  Max(iDelta, jDelta)

-----------------------------------------------------------------------------
(* The insertion-ordered Map of main.ts:99: its keys in insertion order and  *)
(* the value of each key                                                    *)

EmptyMap == [keys |-> << >>, vals |-> << >>]
MapHas(m, k) == k \in DOMAIN m.vals
MapGet(m, k) == m.vals[k]
\* Map.prototype.set: a present key keeps its place, a new key goes last
MapSet(m, k, v) ==
    IF MapHas(m, k)
    THEN [m EXCEPT !.vals[k] = v]
    ELSE [keys |-> Append(m.keys, k), vals |-> m.vals @@ (k :> v)]
\* Array.from(map.entries())
MapEntries(m) == [n \in 1..Len(m.keys) |-> <<m.keys[n], m.vals[m.keys[n]]>>]
MapSize(m) == Len(m.keys)

-----------------------------------------------------------------------------
(* Deterministic spawn *)

\* resolution of luck's result: luck returns n / LuckScale for n in 0..LuckScale-1
LuckScale == 100

\* _luck.ts is not among the sources: a reproducible hash of the situation
\* string to [0, 1).  salt 0 is "initial_spawn_d3b", salt 1 is "value_choice_d3b".
luck(i, j, salt) == (i * 22 + j * 2 + salt * 89 + 11) % LuckScale

\* undefined, the value of an array element that does not exist
Undefined == -2

\* the value index taken with Math.round in place of Math.floor
InitialTokenValue_Rounds(spawnLuck, valueLuck) ==
    IF spawnLuck < INITIAL_SPAWN_PROBABILITY
    THEN LET valueIndex == (2 * valueLuck * Len(BASE_TOKEN_VALUES) + LuckScale)
                               \div (2 * LuckScale)
         IN  IF valueIndex + 1 \in DOMAIN BASE_TOKEN_VALUES
             THEN BASE_TOKEN_VALUES[valueIndex + 1]
             ELSE Undefined
    ELSE Null

\* main.ts:252-260, with the two results of luck, in units of 1 / LuckScale
InitialTokenValue(spawnLuck, valueLuck) ==
    IF spawnLuck < INITIAL_SPAWN_PROBABILITY
    THEN LET valueIndex == (valueLuck * Len(BASE_TOKEN_VALUES)) \div LuckScale
         IN  IF valueIndex + 1 \in DOMAIN BASE_TOKEN_VALUES
             THEN BASE_TOKEN_VALUES[valueIndex + 1]
             ELSE Undefined
    ELSE Null

\* main.ts:251-261
getInitialTokenValue(i, j) == InitialTokenValue(luck(i, j, 0), luck(i, j, 1))

-----------------------------------------------------------------------------
(* Persistence (localStorage), main.ts:107-157 *)

\* localStorage with nothing under STORAGE_KEY
NoBlob == << >>

\* GameState with the Map itself in place of its entries: JSON.stringify
\* writes a Map as {}, which holds no entry
GameStateOf_MapAsObject(player, held, modified) ==
    [playerLatLng |-> [lat |-> player.lat, lng |-> player.lng],
     heldToken |-> held,
     modifiedCellStates |-> << >>]

\* main.ts:115-124: the GameState object that saveGameState stringifies
GameStateOf(player, held, modified) ==
    [playerLatLng |-> [lat |-> player.lat, lng |-> player.lng],
     heldToken |-> held,
     modifiedCellStates |-> MapEntries(modified)]

\* main.ts:125: localStorage.setItem(STORAGE_KEY, JSON.stringify(state))
saveGameState(player, held, modified) == <<GameStateOf(player, held, modified)>>

\* A stored text is modelled by what JSON.parse makes of it: a record of the
\* fields it has, or [syntaxError |-> TRUE] for a text JSON.parse rejects.  In
\* the entries array a tuple of length 2 is a [key, value] pair and any other
\* tuple is a JSON value that cannot be destructured (null, a number).
SyntaxError(state) == "syntaxError" \in DOMAIN state
HasField(state, field) == field \in DOMAIN state
IsPair(entry) == Len(entry) = 2

\* main.ts:143: forEach runs to its end without a TypeError
EntriesIterable(state) ==
    /\ HasField(state, "modifiedCellStates")
    /\ \A n \in DOMAIN state.modifiedCellStates : IsPair(state.modifiedCellStates[n])

\* main.ts:142-145: clear(), then set() every [key, value] pair in array order,
\* up to the first entry the callback throws on
RECURSIVE RestoreEntries(_, _)
RestoreEntries(m, entries) ==
    IF entries = << >> \/ ~IsPair(Head(entries)) THEN m
    ELSE RestoreEntries(MapSet(m, Head(entries)[1], Head(entries)[2]), Tail(entries))

\* main.ts:131-157: the in-memory state and the storage loadGameState leaves,
\* from the module's initial values (main.ts:99-103).  The assignments of
\* lines 138-144 made before a throw stay; the catch only removes the blob.
loadGameState(stored) ==
    IF stored = NoBlob \/ SyntaxError(stored[1])
    THEN [loaded |-> FALSE, failed |-> stored # NoBlob, storage |-> NoBlob,
          playerLatLng |-> INITIAL_PLAYER_LATLNG,
          heldToken |-> Null,
          modifiedCellStates |-> EmptyMap]
    ELSE LET state == stored[1]
             complete == EntriesIterable(state)
         IN  [loaded |-> complete, failed |-> ~complete,
              storage |-> IF complete THEN stored ELSE NoBlob,
              playerLatLng |-> LatLng(state.playerLatLng.lat, state.playerLatLng.lng),
              heldToken |-> state.heldToken,
              modifiedCellStates |->
                  IF HasField(state, "modifiedCellStates")
                  THEN RestoreEntries(EmptyMap, state.modifiedCellStates)
                  ELSE EmptyMap]

-----------------------------------------------------------------------------
(* Render driver, main.ts:581-629 *)

\* the restoration with `modifiedCellStates.get(id) ?? getInitialTokenValue(i, j)`:
\* a null entry falls back to the spawn value
ResolveTokenValue_NullFallsBack(modified, i, j) ==
    IF MapHas(modified, CellId(i, j)) /\ MapGet(modified, CellId(i, j)) # Null
    THEN MapGet(modified, CellId(i, j))
    ELSE getInitialTokenValue(i, j)

\* main.ts:610-616: the memento's value when the id has one, else the spawn value
ResolveTokenValue(modified, i, j) ==
    IF MapHas(modified, CellId(i, j))
    THEN MapGet(modified, CellId(i, j))
    ELSE getInitialTokenValue(i, j)

\* the largest half extent (in position units) of the map's visible bounds
MaxViewHalf == 6
\* half extents of the view at two zoom levels
ViewHalves == {MaxViewHalf - TILE_DEGREES, MaxViewHalf}

\* the window of the viewport's own cells, without the margin of one cell
VisibleCells_NoMargin(center, h) ==
    LET startCell == latLngToGridCell(LatLng(center.lat - h, center.lng - h))
        endCell == latLngToGridCell(LatLng(center.lat + h, center.lng + h))
    IN  {c \in WorldCells : /\ startCell.i <= c[1] /\ c[1] <= endCell.i
                            /\ startCell.j <= c[2] /\ c[2] <= endCell.j}

\* main.ts:590-600: map.getBounds() of a view centred at `center` with half
\* extent h, widened by one cell on each side
VisibleCells(center, h) ==
    LET startCell == latLngToGridCell(LatLng(center.lat - h, center.lng - h))
        endCell == latLngToGridCell(LatLng(center.lat + h, center.lng + h))
        i_min == startCell.i - 1
        i_max == endCell.i + 1
        j_min == startCell.j - 1
        j_max == endCell.j + 1
    IN  {c \in WorldCells : /\ i_min <= c[1] /\ c[1] <= i_max
                            /\ j_min <= c[2] /\ c[2] <= j_max}

\* main.ts:583-627: the rebuilt flyweight map
renderVisibleCells(modified, center, h) ==
    [c \in VisibleCells(center, h) |-> ResolveTokenValue(modified, c[1], c[2])]

-----------------------------------------------------------------------------
(* Interaction rule engine, main.ts:377-457 *)

\* the outcome of one click: the held token, the clicked cell's flyweight
\* value and the memento map it leaves, and the message it shows
Outcome(held, tokenValue, modified, stateChanged, message) ==
    [heldToken |-> held, tokenValue |-> tokenValue, modified |-> modified,
     stateChanged |-> stateChanged, message |-> message]

\* Pickup that does not record the emptied cell in the memento map
Pickup_NoMemento(id, held, cellTokenValue, modified) ==
    Outcome(cellTokenValue, Null, modified, TRUE, "picked up")

\* Pickup that leaves the token on the cell as well
Pickup_LeavesToken(id, held, cellTokenValue, modified) ==
    Outcome(cellTokenValue, cellTokenValue, MapSet(modified, id, Null), TRUE, "picked up")

\* main.ts:403-410
Pickup(id, held, cellTokenValue, modified) ==
    Outcome(cellTokenValue, Null, MapSet(modified, id, Null), TRUE, "picked up")

\* Craft that leaves the consumed cell's memento entry as it was
Craft_NoMemento(id, held, cellTokenValue, modified) ==
    IF held = cellTokenValue
    THEN Outcome(held * 2, Null, modified, TRUE,
                 IF held * 2 >= WIN_CONDITION THEN "win" ELSE "crafted")
    ELSE Outcome(held, cellTokenValue, modified, FALSE, "cannot craft")

\* Craft that merges tokens of unequal values too
Craft_AnyValues(id, held, cellTokenValue, modified) ==
    Outcome(held * 2, Null, MapSet(modified, id, Null), TRUE,
            IF held * 2 >= WIN_CONDITION THEN "win" ELSE "crafted")

\* main.ts:411-435
Craft(id, held, cellTokenValue, modified) ==
    IF held = cellTokenValue
    THEN Outcome(held * 2, Null, MapSet(modified, id, Null), TRUE,
                 IF held * 2 >= WIN_CONDITION THEN "win" ELSE "crafted")
    ELSE Outcome(held, cellTokenValue, modified, FALSE, "cannot craft")

\* Place that refuses a token at or above the win threshold
Place_NotAfterWin(id, held, cellTokenValue, modified) ==
    IF held >= WIN_CONDITION
    THEN Outcome(held, cellTokenValue, modified, FALSE, "game over")
    ELSE Outcome(Null, held, MapSet(modified, id, held), TRUE, "placed")

\* Place that keeps the token in the hand as well
Place_KeepsHeld(id, held, cellTokenValue, modified) ==
    Outcome(held, held, MapSet(modified, id, held), TRUE, "placed")

\* main.ts:436-443
Place(id, held, cellTokenValue, modified) ==
    Outcome(Null, held, MapSet(modified, id, held), TRUE, "placed")

\* main.ts:389
TooFar(distance) == distance > INTERACTION_RADIUS

\* main.ts:383-448: what one click on cell (i, j) leaves behind, given the
\* flyweight's token value of that cell
handleCellClick(i, j, player, held, cellTokenValue, modified) ==
    LET id == CellId(i, j)
        isCellEmpty == cellTokenValue = Null
        isPlayerHolding == held # Null
    IN  IF TooFar(Distance(i, j, player))
        THEN Outcome(held, cellTokenValue, modified, FALSE, "too far away")
        ELSE IF ~isPlayerHolding /\ ~isCellEmpty
        THEN Pickup(id, held, cellTokenValue, modified)
        ELSE IF isPlayerHolding /\ ~isCellEmpty
        THEN Craft(id, held, cellTokenValue, modified)
        ELSE IF isPlayerHolding /\ isCellEmpty
        THEN Place(id, held, cellTokenValue, modified)
        ELSE Outcome(held, cellTokenValue, modified, FALSE, "cell is empty")

-----------------------------------------------------------------------------
(* Movement, main.ts:531-576 and 719-805 *)

\* leaflet's LatLng.equals: equal within 1e-9 degrees, far below one position unit
LatLngEquals(a, b) == a = b

\* updatePlayerPosition without the saveGameState call
updatePlayerPosition_NoSave(player, newLatLng, held, modified, center, stored, marker) ==
    IF ~LatLngEquals(player, newLatLng)
    THEN [playerLatLng |-> newLatLng, mapCenter |-> newLatLng, storage |-> stored,
          playerMarker |-> newLatLng]
    ELSE [playerLatLng |-> player, mapCenter |-> center, storage |-> stored,
          playerMarker |-> marker]

\* main.ts:531-545: player position, marker (setLatLng), map centre (panTo)
\* and stored blob after updatePlayerPosition(newLatLng); the pan's 'moveend'
\* is delivered later
updatePlayerPosition(player, newLatLng, held, modified, center, stored, marker) ==
    IF ~LatLngEquals(player, newLatLng)
    THEN [playerLatLng |-> newLatLng,
          mapCenter |-> newLatLng,
          storage |-> saveGameState(newLatLng, held, modified),
          playerMarker |-> newLatLng]
    ELSE [playerLatLng |-> player, mapCenter |-> center, storage |-> stored,
          playerMarker |-> marker]

Directions == {"north", "south", "east", "west"}

\* main.ts:552-573
movePlayerTarget(player, direction) ==
    LET latDelta == CASE direction = "north" -> TILE_DEGREES
                      [] direction = "south" -> -TILE_DEGREES
                      [] OTHER -> 0
        lngDelta == CASE direction = "east" -> TILE_DEGREES
                      [] direction = "west" -> -TILE_DEGREES
                      [] OTHER -> 0
    IN  LatLng(player.lat + latDelta, player.lng + lngDelta)

\* leaflet's LatLng.distanceTo, squared, in square decimetres.  Lengths follow
\* the code's own measure of a cell, "TILE_DEGREES approx 10m" (main.ts:46 and
\* 723): a position unit (half a cell) is 5 m of latitude and, at the
\* latitude of INITIAL_PLAYER_LATLNG (cos 37 deg = 0.8), 4 m of longitude.
DistanceToSquared(a, b) ==
    LET dLat == (a.lat - b.lat) * 50
        dLng == (a.lng - b.lng) * 40
    IN  dLat * dLat + dLng * dLng

\* no GeolocationMovementStrategy object
NoGeo == [watching |-> FALSE, lastReportedLatLng |-> << >>]
\* main.ts:729-749: init() of a new GeolocationMovementStrategy
GeoInit(player) == [watching |-> TRUE, lastReportedLatLng |-> <<player>>]

\* main.ts:833-839 with init(): the strategy object of the given type
createStrategy(type, player) == IF type = "geolocation" THEN GeoInit(player) ELSE NoGeo

\* The input sources registered with the browser.  keydown holds the strategy
\* objects whose keyboardHandler is a 'keydown' listener of the document (a
\* listener added twice is registered once), watches the strategy objects
\* whose watchPosition is not cleared, current the strategy object the facade
\* holds.  controls is what the control panel holds ("none" before the first
\* renderControls, else the type it was rendered for: the four move buttons
\* exist only for "buttons"), and clicks the number of 'click' listeners on
\* each of its move buttons.  While a handler runs, calls lists the stop and
\* init calls it has made, and cleared the lastReportedLatLng of the strategy
\* object whose watch it has cleared.
NoInputs == [keydown |-> {}, watches |-> {}, current |-> 0, controls |-> "none",
             clicks |-> 0, calls |-> << >>, cleared |-> << >>]
\* the inputs at the start of a handler, and the part of them that outlives it
Calling(inp) == [keydown |-> inp.keydown, watches |-> inp.watches,
                 current |-> inp.current, controls |-> inp.controls,
                 clicks |-> inp.clicks, calls |-> << >>, cleared |-> << >>]
Registered(inp) == [keydown |-> inp.keydown, watches |-> inp.watches,
                    current |-> inp.current, controls |-> inp.controls,
                    clicks |-> inp.clicks]

\* identity of a newly constructed strategy object: the least number no
\* registered source carries
NewId(inp) ==
    CHOOSE n \in 1..(Cardinality(inp.keydown \cup inp.watches) + 1) :
        /\ n \notin inp.keydown \cup inp.watches
        /\ \A m \in 1..(n - 1) : m \in inp.keydown \cup inp.watches

\* ButtonMovementStrategy.stop that leaves its keydown listener registered
StrategyStop_KeepsKeyboard(type, g, inp) ==
    IF type = "geolocation" /\ g.watching
    THEN [geo |-> [g EXCEPT !.watching = FALSE],
          inputs |-> [inp EXCEPT !.watches = @ \ {inp.current},
                                 !.calls = Append(@, <<"stop", type>>),
                                 !.cleared = g.lastReportedLatLng]]
    ELSE [geo |-> g, inputs |-> [inp EXCEPT !.calls = Append(@, <<"stop", type>>)]]

\* main.ts:856-858 with 660-664 and 751-757: stop() of the current strategy
StrategyStop(type, g, inp) ==
    IF type = "buttons"
    THEN [geo |-> g,
          inputs |-> [inp EXCEPT !.keydown = @ \ {inp.current},
                                 !.calls = Append(@, <<"stop", type>>)]]
    ELSE IF g.watching
    THEN [geo |-> [g EXCEPT !.watching = FALSE],
          inputs |-> [inp EXCEPT !.watches = @ \ {inp.current},
                                 !.calls = Append(@, <<"stop", type>>),
                                 !.cleared = g.lastReportedLatLng]]
    ELSE [geo |-> g, inputs |-> [inp EXCEPT !.calls = Append(@, <<"stop", type>>)]]

\* main.ts:833-839 with 655-658 and 729-749: a new strategy object and its init()
StrategyInit(type, player, inp) ==
    LET id == NewId(inp)
    IN  [geo |-> createStrategy(type, player),
         inputs |-> [keydown |-> IF type = "buttons" THEN inp.keydown \cup {id}
                                 ELSE inp.keydown,
                     watches |-> IF type = "geolocation" THEN inp.watches \cup {id}
                                 ELSE inp.watches,
                     current |-> id,
                     controls |-> inp.controls,
                     clicks |-> IF type = "buttons" /\ inp.controls = "buttons"
                                THEN inp.clicks + 1 ELSE inp.clicks,
                     calls |-> Append(inp.calls, <<"init", type>>),
                     cleared |-> inp.cleared]]

\* renderControls that adds the new controls to the panel without removing
\* the old ones
renderControls_KeepsOldButtons(type, inp) ==
    IF type = "buttons"
    THEN [inp EXCEPT !.controls = type, !.clicks = @ + 1,
                     !.keydown = @ \cup {inp.current}]
    ELSE [inp EXCEPT !.controls = type]

\* main.ts:861-930: the panel's content is replaced (862, 911), so the move
\* buttons are new elements without listeners; for a buttons strategy init()
\* is called again (923-929), which adds one 'click' listener to each new
\* button and adds the same keyboardHandler again
renderControls(type, inp) ==
    IF type = "buttons"
    THEN [inp EXCEPT !.controls = type, !.clicks = 1,
                     !.keydown = @ \cup {inp.current}]
    ELSE [inp EXCEPT !.controls = type, !.clicks = 0]

\* main.ts:819-831: the constructor of MovementControllerFacade
MovementControllerFacade(type, player, inp) ==
    LET started == StrategyInit(type, player, inp)
    IN  [currentMovementStrategy |-> type,
         geo |-> started.geo,
         inputs |-> renderControls(type, started.inputs)]

\* the threshold test with <= in place of <
SampleTooClose_AtOrBelow(g, newLatLng) ==
    /\ g.lastReportedLatLng # << >>
    /\ DistanceToSquared(g.lastReportedLatLng[1], newLatLng)
         <= (10 * TILE_THRESHOLD_METERS) * (10 * TILE_THRESHOLD_METERS)

\* main.ts:766-772: the sample is dropped
SampleTooClose(g, newLatLng) ==
    /\ g.lastReportedLatLng # << >>
    /\ DistanceToSquared(g.lastReportedLatLng[1], newLatLng)
         < (10 * TILE_THRESHOLD_METERS) * (10 * TILE_THRESHOLD_METERS)

\* position samples the watch delivers
GeoSamples == {p \in Positions : p.lat % TILE_DEGREES = 0 /\ p.lng % TILE_DEGREES = 1}
ErrorCodes == {"PERMISSION_DENIED", "POSITION_UNAVAILABLE", "TIMEOUT"}

\* the 'movement' query parameter: the two recognised values, no parameter,
\* and any other value
MovementParams == {"buttons", "geolocation", "absent", "other"}

\* a selection that falls back to buttons only for a missing parameter
StrategyOfParam_OtherIsGeolocation(movementParam) ==
    IF movementParam = "buttons" \/ movementParam = "absent"
    THEN "buttons" ELSE "geolocation"

\* main.ts:942-947
StrategyOfParam(movementParam) ==
    IF movementParam = "geolocation" \/ movementParam = "buttons"
    THEN movementParam ELSE "buttons"

-----------------------------------------------------------------------------
(* History *)

\* the handler that ran last and the message it showed.  After a pickup, trip
\* is <<cell id, the cell's memento record before the pickup (<< >> when it had
\* none, else <<value>>), the value picked up>>; a place on that cell right
\* after the pickup keeps it; every other handler clears it.
NoTrip == << >>
ClickEvent(message, trip) ==
    [kind |-> "click", message |-> message, trip |-> trip, calls |-> << >>,
     cleared |-> << >>]
Event(kind, message) ==
    [kind |-> kind, message |-> message, trip |-> NoTrip, calls |-> << >>,
     cleared |-> << >>]
\* a handler that stopped or started a movement strategy, with the inputs it leaves
SwitchEvent(kind, message, inp) ==
    [kind |-> kind, message |-> message, trip |-> NoTrip, calls |-> inp.calls,
     cleared |-> inp.cleared]

MementoRecord(modified, id) == IF MapHas(modified, id) THEN <<MapGet(modified, id)>> ELSE << >>

TripAfter(id, message, cellTokenValue) ==
    IF message = "picked up"
    THEN <<id, MementoRecord(modifiedCellStates, id), cellTokenValue>>
    ELSE IF /\ message = "placed" /\ last.message = "picked up"
            /\ last.trip # NoTrip /\ last.trip[1] = id
    THEN last.trip
    ELSE NoTrip

-----------------------------------------------------------------------------
(* Startup, main.ts:936-978 *)

\* the state initializeGame leaves with `stored` in localStorage, the given
\* 'movement' query parameter and a view of half extent h
initializeGame(stored, movementParam, h) ==
    LET ld == loadGameState(stored)
        type == StrategyOfParam(movementParam)
        facade == MovementControllerFacade(type, ld.playerLatLng, NoInputs)
    IN  [playerLatLng |-> ld.playerLatLng,
         heldToken |-> ld.heldToken,
         modifiedCellStates |-> ld.modifiedCellStates,
         currentMovementStrategy |-> facade.currentMovementStrategy,
         geo |-> facade.geo,
         inputs |-> facade.inputs,
         mapCenter |-> ld.playerLatLng,
         playerMarker |-> INITIAL_PLAYER_LATLNG,
         loaded |-> ld.loaded,
         failed |-> ld.failed,
         storage |-> ld.storage,
         cellStates |-> renderVisibleCells(ld.modifiedCellStates, ld.playerLatLng, h)]

\* no utility function is applied on its own
NoProbe == << >>

Started(st, stored, ev) ==
    /\ playerLatLng = st.playerLatLng
    /\ heldToken = st.heldToken
    /\ modifiedCellStates = st.modifiedCellStates
    /\ currentMovementStrategy = st.currentMovementStrategy
    /\ geo = st.geo
    /\ inputs = Registered(st.inputs)
    /\ mapCenter = st.mapCenter
    /\ playerMarker = st.playerMarker
    /\ cellStates = st.cellStates
    /\ storage = stored
    /\ newGames = 0
    /\ last = ev

Init ==
    \E movementParam \in MovementParams, h \in ViewHalves :
        \E st \in {initializeGame(NoBlob, movementParam, h)} :
            /\ Started(st, NoBlob, SwitchEvent("start", "welcome", st.inputs))
            /\ probe = NoProbe

-----------------------------------------------------------------------------
(* Handlers *)

\* a click on the rectangle of a rendered cell, main.ts:355 and 377-457, while
\* the held token stays at or below maxToken
HandleCellClickUpTo(i, j, maxToken) ==
    /\ CellId(i, j) \in DOMAIN cellStates
    /\ \E out \in {handleCellClick(i, j, playerLatLng, heldToken,
                                   cellStates[CellId(i, j)], modifiedCellStates)} :
           /\ MapSize(out.modified) <= MaxModified
           /\ out.heldToken <= maxToken
           /\ heldToken' = out.heldToken
           /\ cellStates' = [cellStates EXCEPT ![CellId(i, j)] = out.tokenValue]
           /\ modifiedCellStates' = out.modified
           /\ storage' = IF out.stateChanged
                         THEN saveGameState(playerLatLng, out.heldToken, out.modified)
                         ELSE storage
           /\ last' = ClickEvent(out.message,
                                 TripAfter(CellId(i, j), out.message, cellStates[CellId(i, j)]))
    /\ UNCHANGED <<playerLatLng, currentMovementStrategy, geo, inputs, mapCenter,
                   playerMarker, newGames, probe>>

HandleCellClick(i, j) == HandleCellClickUpTo(i, j, MaxToken)

\* where a directional input event comes from: a click on a move button of
\* the control panel, or a 'keydown' of an arrow or WASD key
InputSources == {"button", "key"}

\* the listeners the event is delivered to: the 'click' listeners of the move
\* button (main.ts:666-683), the 'keydown' listeners of the document (685-713)
Listeners(inp, source) ==
    IF source = "button"
    THEN IF inp.controls = "buttons" THEN inp.clicks ELSE 0
    ELSE Cardinality(inp.keydown)

\* main.ts:552-576, once for each listener the event is delivered to
RECURSIVE movePlayer(_, _, _, _, _, _, _, _)
movePlayer(listeners, player, direction, held, modified, center, stored, marker) ==
    IF listeners = 0
    THEN [playerLatLng |-> player, mapCenter |-> center, storage |-> stored,
          playerMarker |-> marker]
    ELSE LET up == updatePlayerPosition(player, movePlayerTarget(player, direction),
                                        held, modified, center, stored, marker)
         IN  movePlayer(listeners - 1, up.playerLatLng, direction, held, modified,
                        up.mapCenter, up.storage, up.playerMarker)

\* a directional input event: every listener registered for it calls
\* movePlayer, main.ts:552-576
MovePlayer(direction, source) ==
    /\ Listeners(inputs, source) > 0
    /\ \E up \in {movePlayer(Listeners(inputs, source), playerLatLng, direction,
                            heldToken, modifiedCellStates, mapCenter, storage, playerMarker)} :
           /\ up.playerLatLng \in Positions
           /\ playerLatLng' = up.playerLatLng
           /\ mapCenter' = up.mapCenter
           /\ playerMarker' = up.playerMarker
           /\ storage' = up.storage
    /\ last' = Event("move", "")
    /\ UNCHANGED <<heldToken, cellStates, modifiedCellStates, currentMovementStrategy, geo,
                   inputs, newGames, probe>>

\* a position sample of the watch, main.ts:759-782
HandleSuccess(newLatLng) ==
    /\ geo.watching
    /\ IF SampleTooClose(geo, newLatLng)
       THEN /\ last' = Event("sample", "ignored")
            /\ UNCHANGED <<playerLatLng, mapCenter, playerMarker, storage, geo>>
       ELSE \E up \in {updatePlayerPosition(playerLatLng, newLatLng, heldToken,
                           modifiedCellStates, mapCenter, storage, playerMarker)} :
                /\ geo' = [geo EXCEPT !.lastReportedLatLng = <<newLatLng>>]
                /\ playerLatLng' = up.playerLatLng
                /\ mapCenter' = up.mapCenter
                /\ playerMarker' = up.playerMarker
                /\ storage' = up.storage
                /\ last' = Event("sample", "moved")
    /\ UNCHANGED <<heldToken, cellStates, modifiedCellStates, currentMovementStrategy,
                   inputs, newGames, probe>>

\* a switch that always selects geolocation
toggledStrategy_AlwaysGeolocation(type) == "geolocation"

\* main.ts:844-846
toggledStrategy(type) == IF type = "buttons" THEN "geolocation" ELSE "buttons"

\* toggleStrategy that also calls saveGameState
toggleStrategy_Saves(type, g, inp, player, held, modified, stored) ==
    LET stopped == StrategyStop(type, g, Calling(inp))
        started == StrategyInit(toggledStrategy(type), player, stopped.inputs)
    IN  [currentMovementStrategy |-> toggledStrategy(type),
         geo |-> started.geo,
         inputs |-> renderControls(toggledStrategy(type), started.inputs),
         storage |-> saveGameState(player, held, modified)]

\* main.ts:841-854: stop() of the current strategy, then a new strategy of the
\* other type, its init() and renderControls; updateStatusPanel and
\* showMessage write nothing to the store
toggleStrategy(type, g, inp, player, held, modified, stored) ==
    LET stopped == StrategyStop(type, g, Calling(inp))
        started == StrategyInit(toggledStrategy(type), player, stopped.inputs)
    IN  [currentMovementStrategy |-> toggledStrategy(type),
         geo |-> started.geo,
         inputs |-> renderControls(toggledStrategy(type), started.inputs),
         storage |-> stored]

\* the toggle-movement button, main.ts:841-854 and 914-917
ToggleStrategy ==
    /\ \E tg \in {toggleStrategy(currentMovementStrategy, geo, inputs, playerLatLng,
                                  heldToken, modifiedCellStates, storage)} :
           /\ currentMovementStrategy' = tg.currentMovementStrategy
           /\ geo' = tg.geo
           /\ inputs' = Registered(tg.inputs)
           /\ storage' = tg.storage
           /\ last' = SwitchEvent("toggle", "switched", tg.inputs)
    /\ UNCHANGED <<playerLatLng, heldToken, cellStates, modifiedCellStates,
                   mapCenter, playerMarker, newGames, probe>>

\* an error of the watch, main.ts:784-804
HandleError(code) ==
    /\ geo.watching
    /\ IF code = "PERMISSION_DENIED"
       THEN \E tg \in {toggleStrategy(currentMovementStrategy, geo, inputs, playerLatLng,
                                      heldToken, modifiedCellStates, storage)} :
                /\ currentMovementStrategy' = tg.currentMovementStrategy
                /\ geo' = tg.geo
                /\ inputs' = Registered(tg.inputs)
                /\ storage' = tg.storage
                /\ last' = SwitchEvent("error", code, tg.inputs)
       ELSE /\ UNCHANGED <<currentMovementStrategy, geo, inputs, storage>>
            /\ last' = Event("error", code)
    /\ UNCHANGED <<playerLatLng, heldToken, cellStates, modifiedCellStates,
                   mapCenter, playerMarker, newGames, probe>>

\* a 'moveend' of the map (the end of a pan, a zoom, a resize) with the view's
\* half extent h, main.ts:581-629 and 958
RenderVisibleCells(h) ==
    /\ cellStates' = renderVisibleCells(modifiedCellStates, mapCenter, h)
    /\ last' = Event("render", "")
    /\ UNCHANGED <<playerLatLng, heldToken, modifiedCellStates, storage,
                   currentMovementStrategy, geo, inputs, mapCenter, playerMarker, newGames, probe>>

\* startNewGame that calls updatePlayerPosition(INITIAL_PLAYER_LATLNG) before
\* it resets the in-memory state
startNewGame_MoveBeforeReset(player, held, modified, center, stored, type, g, inp, marker) ==
    LET up == updatePlayerPosition(player, INITIAL_PLAYER_LATLNG, held, modified,
                                   center, NoBlob, marker)
        stopped == StrategyStop(type, g, Calling(inp))
        facade == MovementControllerFacade(type, INITIAL_PLAYER_LATLNG, stopped.inputs)
    IN  [playerLatLng |-> INITIAL_PLAYER_LATLNG, heldToken |-> Null,
         modifiedCellStates |-> EmptyMap,
         geo |-> facade.geo, inputs |-> facade.inputs,
         mapCenter |-> up.mapCenter, storage |-> up.storage,
         playerMarker |-> up.playerMarker]

\* main.ts:162-186: removeItem (164), the reset of lines 167-169, and then
\* updatePlayerPosition(INITIAL_PLAYER_LATLNG) (184) with playerLatLng already
\* at INITIAL_PLAYER_LATLNG; between them (172-181) stop() of the old strategy
\* and a new facade of the current strategy type
startNewGame(player, held, modified, center, stored, type, g, inp, marker) ==
    LET stopped == StrategyStop(type, g, Calling(inp))
        facade == MovementControllerFacade(type, INITIAL_PLAYER_LATLNG, stopped.inputs)
        up == updatePlayerPosition(INITIAL_PLAYER_LATLNG, INITIAL_PLAYER_LATLNG, Null,
                                   EmptyMap, center, NoBlob, marker)
    IN  [playerLatLng |-> up.playerLatLng, heldToken |-> Null,
         modifiedCellStates |-> EmptyMap,
         geo |-> facade.geo, inputs |-> facade.inputs,
         mapCenter |-> up.mapCenter, storage |-> up.storage,
         playerMarker |-> up.playerMarker]

\* the new-game button, main.ts:162-186 and 918-921
StartNewGame ==
    \E up \in {startNewGame(playerLatLng, heldToken, modifiedCellStates, mapCenter,
                            storage, currentMovementStrategy, geo, inputs, playerMarker)} :
        /\ playerLatLng' = up.playerLatLng
        /\ heldToken' = up.heldToken
        /\ modifiedCellStates' = up.modifiedCellStates
        /\ storage' = up.storage
        /\ mapCenter' = up.mapCenter
        /\ playerMarker' = up.playerMarker
        /\ geo' = up.geo
        /\ inputs' = Registered(up.inputs)
        /\ last' = SwitchEvent("newgame", "new game started", up.inputs)
        /\ newGames < MaxNewGames
        /\ newGames' = newGames + 1
        /\ UNCHANGED <<cellStates, currentMovementStrategy, probe>>

\* the page is closed and opened again: module initialisation and initializeGame
Reload(movementParam, h) ==
    \E st \in {initializeGame(storage, movementParam, h)} :
        /\ playerLatLng' = st.playerLatLng
        /\ heldToken' = st.heldToken
        /\ modifiedCellStates' = st.modifiedCellStates
        /\ currentMovementStrategy' = st.currentMovementStrategy
        /\ geo' = st.geo
        /\ inputs' = Registered(st.inputs)
        /\ mapCenter' = st.mapCenter
        /\ playerMarker' = st.playerMarker
        /\ cellStates' = st.cellStates
        /\ storage' = st.storage
        /\ last' = SwitchEvent("reload", IF st.loaded THEN "" ELSE "welcome",
                                st.inputs)
        /\ UNCHANGED <<newGames, probe>>

\* stored blobs that loadGameState cannot read to the end: a text that is not
\* JSON, an object without its modifiedCellStates array, and an entries array
\* with a null after its first pair
CorruptedBlobs ==
    LET moved == movePlayerTarget(INITIAL_PLAYER_LATLNG, "north")
    IN  {[syntaxError |-> TRUE],
         [playerLatLng |-> [lat |-> moved.lat, lng |-> moved.lng],
          heldToken |-> BASE_TOKEN_VALUES[1]],
         [playerLatLng |-> [lat |-> moved.lat, lng |-> moved.lng],
          heldToken |-> Null,
          modifiedCellStates |-> <<<<CellId(0, 0), Null>>, <<Null>>>>]}

\* the page is opened again after the text under STORAGE_KEY was damaged while
\* it was closed (a truncated write, another program using the same key, an
\* edit in the browser's storage inspector)
ReloadCorrupted(blob, movementParam, h) ==
    \E st \in {initializeGame(<<blob>>, movementParam, h)} :
        /\ st.failed
        /\ playerLatLng' = st.playerLatLng
        /\ heldToken' = st.heldToken
        /\ modifiedCellStates' = st.modifiedCellStates
        /\ currentMovementStrategy' = st.currentMovementStrategy
        /\ geo' = st.geo
        /\ inputs' = Registered(st.inputs)
        /\ mapCenter' = st.mapCenter
        /\ playerMarker' = st.playerMarker
        /\ cellStates' = st.cellStates
        /\ storage' = st.storage
        /\ last' = SwitchEvent("reload", "corrupted", st.inputs)
        /\ UNCHANGED <<newGames, probe>>

Next ==
    \/ \E c \in ClickCells : HandleCellClick(c[1], c[2])
    \/ \E direction \in Directions, source \in InputSources : MovePlayer(direction, source)
    \/ \E newLatLng \in GeoSamples : HandleSuccess(newLatLng)
    \/ \E code \in ErrorCodes : HandleError(code)
    \/ ToggleStrategy
    \/ \E h \in ViewHalves : RenderVisibleCells(h)
    \/ StartNewGame
    \/ \E movementParam \in MovementParams, h \in ViewHalves : Reload(movementParam, h)
    \/ \E blob \in CorruptedBlobs, movementParam \in MovementParams, h \in ViewHalves :
           ReloadCorrupted(blob, movementParam, h)

Spec == Init /\ [][Next]_vars

-----------------------------------------------------------------------------
(* Callbacks of a cleared watch.  clearWatch ends the watch, but a callback  *)
(* the browser had queued before the handler that called clearWatch ran is   *)
(* still delivered: it runs as the next task, on the strategy object that    *)
(* was stopped.                                                              *)

\* the stopped strategy object: its watchId is null, its lastReportedLatLng
\* is what it was when the watch was cleared
StoppedStrategy == [watching |-> FALSE, lastReportedLatLng |-> last.cleared]

\* handleSuccess of the stopped strategy object, main.ts:759-782
StaleHandleSuccess(newLatLng) ==
    /\ last.cleared # << >>
    /\ IF SampleTooClose(StoppedStrategy, newLatLng)
       THEN /\ last' = Event("stale", "ignored")
            /\ UNCHANGED <<playerLatLng, mapCenter, playerMarker, storage>>
       ELSE \E up \in {updatePlayerPosition(playerLatLng, newLatLng, heldToken,
                           modifiedCellStates, mapCenter, storage, playerMarker)} :
                /\ playerLatLng' = up.playerLatLng
                /\ mapCenter' = up.mapCenter
                /\ playerMarker' = up.playerMarker
                /\ storage' = up.storage
                /\ last' = Event("stale", "moved")
    /\ UNCHANGED <<heldToken, cellStates, modifiedCellStates, currentMovementStrategy,
                   geo, inputs, newGames, probe>>

\* handleError of the stopped strategy object, main.ts:784-804: its
\* toggleStrategy is that of the facade in movementController
StaleHandleError(code) ==
    /\ last.cleared # << >>
    /\ IF code = "PERMISSION_DENIED"
       THEN \E tg \in {toggleStrategy(currentMovementStrategy, geo, inputs, playerLatLng,
                                      heldToken, modifiedCellStates, storage)} :
                /\ currentMovementStrategy' = tg.currentMovementStrategy
                /\ geo' = tg.geo
                /\ inputs' = Registered(tg.inputs)
                /\ storage' = tg.storage
                /\ last' = SwitchEvent("stale", code, tg.inputs)
       ELSE /\ UNCHANGED <<currentMovementStrategy, geo, inputs, storage>>
            /\ last' = Event("stale", code)
    /\ UNCHANGED <<playerLatLng, heldToken, cellStates, modifiedCellStates,
                   mapCenter, playerMarker, newGames, probe>>

\* the handlers that start, stop or drive a movement strategy, and the
\* callbacks of a cleared watch among them
StaleNext ==
    \/ \E direction \in Directions, source \in InputSources : MovePlayer(direction, source)
    \/ \E newLatLng \in GeoSamples : HandleSuccess(newLatLng)
    \/ \E code \in ErrorCodes : HandleError(code)
    \/ ToggleStrategy
    \/ StartNewGame
    \/ \E movementParam \in MovementParams, h \in ViewHalves : Reload(movementParam, h)
    \/ \E newLatLng \in GeoSamples : StaleHandleSuccess(newLatLng)
    \/ \E code \in ErrorCodes : StaleHandleError(code)

SpecStale == Init /\ [][StaleNext]_vars

-----------------------------------------------------------------------------
(* Play around the win threshold *)

\* "The player wins when a value of 16 or higher is obtained", PLAN.md:118
PLAN_WIN_VALUE == 16

\* tokens in play reach twice the win threshold
MaxWinToken == 2 * WIN_CONDITION

\* token values one craft below PLAN_WIN_VALUE, one craft below
\* WIN_CONDITION, and at WIN_CONDITION
WinTokens == {PLAN_WIN_VALUE \div 2, WIN_CONDITION \div 2, WIN_CONDITION}

\* a saved game opened again: the player, at the initial position, holds a
\* token crafted earlier and has placed another one on cell (0, 0)
WinInit ==
    \E held \in WinTokens, placed \in WinTokens, h \in ViewHalves :
        \E stored \in {saveGameState(INITIAL_PLAYER_LATLNG, held,
                                      MapSet(EmptyMap, CellId(0, 0), placed))} :
            \E st \in {initializeGame(stored, "buttons", h)} :
                /\ Started(st, stored, SwitchEvent("reload", "", st.inputs))
                /\ probe = NoProbe

WinClick(i, j) == HandleCellClickUpTo(i, j, MaxWinToken)

WinNext ==
    \/ \E c \in ClickCells : WinClick(c[1], c[2])
    \/ \E direction \in Directions, source \in InputSources : MovePlayer(direction, source)
    \/ \E h \in ViewHalves : RenderVisibleCells(h)

SpecWin == WinInit /\ [][WinNext]_vars

-----------------------------------------------------------------------------
(* The coordinate conversions in the numbers of the source.  A number of    *)
(* TypeScript is an IEEE-754 binary64: a sign and a 53-digit binary          *)
(* significand m scaled by a power of two, m * 2^e, and every product, sum   *)
(* and quotient is the exact result rounded to the nearest such number, a    *)
(* tie going to the even significand.                                       *)

\* A natural number of any size is the sequence of its digits to the base
\* LimbBase, least significant first, without leading zeros.
LimbBits == 15
LimbBase == Pow2(LimbBits)

RECURSIVE Trim(_)
Trim(a) == IF a = << >> \/ a[Len(a)] # 0 THEN a ELSE Trim(SubSeq(a, 1, Len(a) - 1))

\* of a number below LimbBase^3
NatLimbs(n) == Trim(<<n % LimbBase, (n \div LimbBase) % LimbBase,
                      n \div (LimbBase * LimbBase)>>)

\* of a number that fits an integer of the model checker
RECURSIVE LimbsNat(_)
LimbsNat(a) == IF a = << >> THEN 0 ELSE Head(a) + LimbBase * LimbsNat(Tail(a))

LimbAt(a, k) == IF k \in 1..Len(a) THEN a[k] ELSE 0

\* the digits from place k on of a + b, with the carry into place k
RECURSIVE AddCarry(_, _, _, _)
AddCarry(a, b, k, carry) ==
    IF k > Len(a) /\ k > Len(b)
    THEN IF carry = 1 THEN <<1>> ELSE << >>
    ELSE LET sum == LimbAt(a, k) + LimbAt(b, k) + carry
         IN  <<sum % LimbBase>> \o AddCarry(a, b, k + 1, sum \div LimbBase)

BigAdd(a, b) == AddCarry(a, b, 1, 0)

\* the digits from place k on of a - b, with the borrow from place k
RECURSIVE SubBorrow(_, _, _, _)
SubBorrow(a, b, k, borrow) ==
    IF k > Len(a)
    THEN << >>
    ELSE LET diff == LimbAt(a, k) - LimbAt(b, k) - borrow
         IN  <<diff % LimbBase>> \o SubBorrow(a, b, k + 1, IF diff < 0 THEN 1 ELSE 0)

\* a - b for a >= b
BigSub(a, b) == Trim(SubBorrow(a, b, 1, 0))

RECURSIVE LessFrom(_, _, _)
LessFrom(a, b, k) ==
    IF k = 0 THEN FALSE
    ELSE IF a[k] # b[k] THEN a[k] < b[k]
    ELSE LessFrom(a, b, k - 1)

BigLess(a, b) == Len(a) < Len(b) \/ (Len(a) = Len(b) /\ LessFrom(a, b, Len(a)))

\* the digits from place k on of a * s for a digit s, with the carry into place k
RECURSIVE MulCarry(_, _, _, _)
MulCarry(a, s, k, carry) ==
    IF k > Len(a)
    THEN IF carry > 0 THEN <<carry>> ELSE << >>
    ELSE LET prod == a[k] * s + carry
         IN  <<prod % LimbBase>> \o MulCarry(a, s, k + 1, prod \div LimbBase)

MulSmall(a, s) == IF s = 0 THEN << >> ELSE MulCarry(a, s, 1, 0)

\* a * LimbBase^n
ShiftLimbs(a, n) ==
    IF a = << >> THEN << >>
    ELSE [k \in 1..(Len(a) + n) |-> IF k <= n THEN 0 ELSE a[k - n]]

RECURSIVE MulFrom(_, _, _)
MulFrom(a, b, k) ==
    IF k > Len(b) THEN << >>
    ELSE BigAdd(ShiftLimbs(MulSmall(a, b[k]), k - 1), MulFrom(a, b, k + 1))

BigMul(a, b) == MulFrom(a, b, 1)

\* the number of binary digits of a
BitLength(a) ==
    IF a = << >> THEN 0
    ELSE LimbBits * (Len(a) - 1)
           + CHOOSE n \in 1..LimbBits : Pow2(n - 1) <= a[Len(a)] /\ a[Len(a)] < Pow2(n)

\* a * 2^s
ShiftLeft(a, s) == ShiftLimbs(MulSmall(a, Pow2(s % LimbBits)), s \div LimbBits)

\* the integer part of a / 2^s
ShiftRight(a, s) ==
    LET limbs == s \div LimbBits
        bits == s % LimbBits
    IN  IF limbs >= Len(a) THEN << >>
        ELSE Trim([k \in 1..(Len(a) - limbs) |->
                      (a[k + limbs] \div Pow2(bits))
                        + (LimbAt(a, k + limbs + 1) % Pow2(bits)) * Pow2(LimbBits - bits)])

\* the binary digit of a at place p, the least significant place being 1
BitAt(a, p) == (LimbAt(a, (p - 1) \div LimbBits + 1) \div Pow2((p - 1) % LimbBits)) % 2

\* some binary digit of a at the places 1 .. s is 1
LowBits(a, s) ==
    \E k \in 1..Len(a) :
        \/ k <= s \div LimbBits /\ a[k] # 0
        \/ k = s \div LimbBits + 1 /\ a[k] % Pow2(s % LimbBits) # 0

\* the largest digit q with d * q <= r, its binary digits found from place
\* `bit` down
RECURSIVE QuotientDigit(_, _, _, _)
QuotientDigit(r, d, bit, q) ==
    IF bit < 0 THEN q
    ELSE IF BigLess(r, MulSmall(d, q + Pow2(bit)))
    THEN QuotientDigit(r, d, bit - 1, q)
    ELSE QuotientDigit(r, d, bit - 1, q + Pow2(bit))

\* long division: the digits n[k] .. n[1] are still to be brought down, q holds
\* the quotient digits found and r the remainder so far
RECURSIVE DivStep(_, _, _, _, _)
DivStep(n, d, k, q, r) ==
    IF k = 0 THEN [q |-> Trim(q), r |-> r]
    ELSE \* the remainder with the next digit brought down
         LET down == Trim(<<n[k]>> \o r)
             digit == QuotientDigit(down, d, LimbBits - 1, 0)
         IN  DivStep(n, d, k - 1, <<digit>> \o q, BigSub(down, MulSmall(d, digit)))

\* quotient and remainder of n / d, d > 0
BigDivMod(n, d) == DivStep(n, d, Len(n), << >>, << >>)

\* digits of a binary64 significand
SignificandBits == 53

Zero == [neg |-> FALSE, m |-> << >>, e |-> 0]

\* the binary64 nearest to n * 2^e (a little more than that when sticky),
\* ties to even; the exponent range of binary64 is not reached here
RoundToDouble(neg, n, e, sticky) ==
    IF n = << >> THEN Zero
    ELSE IF BitLength(n) <= SignificandBits
    THEN [neg |-> neg, m |-> ShiftLeft(n, SignificandBits - BitLength(n)),
          e |-> e - (SignificandBits - BitLength(n))]
    ELSE LET drop == BitLength(n) - SignificandBits
             kept == ShiftRight(n, drop)
             rest == sticky \/ LowBits(n, drop - 1)
             up == BitAt(n, drop) = 1 /\ (rest \/ BitAt(kept, 1) = 1)
             rounded == IF up THEN BigAdd(kept, <<1>>) ELSE kept
         IN  IF BitLength(rounded) > SignificandBits
             THEN [neg |-> neg, m |-> ShiftRight(rounded, 1), e |-> e + drop + 1]
             ELSE [neg |-> neg, m |-> rounded, e |-> e + drop]

\* the number value of an integer literal or loop variable
FromInt(k) == RoundToDouble(k < 0, NatLimbs(IF k < 0 THEN -k ELSE k), 0, FALSE)

\* x * y
FMul(x, y) == RoundToDouble(x.neg # y.neg, BigMul(x.m, y.m), x.e + y.e, FALSE)

\* x + y
FAdd(x, y) ==
    IF x.m = << >> THEN y
    ELSE IF y.m = << >> THEN x
    ELSE LET e == IF x.e < y.e THEN x.e ELSE y.e
             a == ShiftLeft(x.m, x.e - e)
             b == ShiftLeft(y.m, y.e - e)
         IN  IF x.neg = y.neg THEN RoundToDouble(x.neg, BigAdd(a, b), e, FALSE)
             ELSE IF a = b THEN Zero
             ELSE IF BigLess(a, b) THEN RoundToDouble(y.neg, BigSub(b, a), e, FALSE)
             ELSE RoundToDouble(x.neg, BigSub(a, b), e, FALSE)

\* x - y
FSub(x, y) == FAdd(x, [y EXCEPT !.neg = ~y.neg])

\* x / y for y # 0: the quotient of the significands to 55 or 56 digits, the
\* remainder deciding only whether the quotient is exact
FDiv(x, y) ==
    IF x.m = << >> THEN Zero
    ELSE LET qr == BigDivMod(ShiftLeft(x.m, SignificandBits + 2), y.m)
         IN  RoundToDouble(x.neg # y.neg, qr.q, x.e - y.e - (SignificandBits + 2),
                           qr.r # << >>)

\* Math.floor, as an integer
Floor(x) ==
    IF x.m = << >> THEN 0
    ELSE LET whole == IF x.e >= 0 THEN ShiftLeft(x.m, x.e) ELSE ShiftRight(x.m, -x.e)
             fraction == x.e < 0 /\ LowBits(x.m, -x.e)
         IN  IF x.neg
             THEN -(LimbsNat(whole) + IF fraction THEN 1 ELSE 0)
             ELSE LimbsNat(whole)

\* the number written with the given hexadecimal digits, most significant first
RECURSIVE HexLimbs(_)
HexLimbs(digits) ==
    IF digits = << >> THEN << >>
    ELSE BigAdd(MulSmall(HexLimbs(SubSeq(digits, 1, Len(digits) - 1)), 16),
                NatLimbs(digits[Len(digits)]))

\* main.ts:46: the literal 1e-4 is the binary64 0x3F1A36E2EB1C432D, which is
\* 0x1A36E2EB1C432D * 2^-66, a little above one ten-thousandth
TILE_DEGREES_DOUBLE ==
    [neg |-> FALSE,
     m |-> HexLimbs(<<1, 10, 3, 6, 14, 2, 14, 11, 1, 12, 4, 3, 2, 13>>),
     e |-> 0 - 66]

\* main.ts:42: leaflet.latLng(0, 0)
NULL_ISLAND_LATLNG == [lat |-> Zero, lng |-> Zero]

\* main.ts:65-69
latLngToGridCellDouble(latlng) ==
    [i |-> Floor(FDiv(FSub(latlng.lng, NULL_ISLAND_LATLNG.lng), TILE_DEGREES_DOUBLE)),
     j |-> Floor(FDiv(FSub(latlng.lat, NULL_ISLAND_LATLNG.lat), TILE_DEGREES_DOUBLE))]

\* main.ts:74-84: the south-west and north-east corners of cell (i, j)
gridCellToBounds(i, j) ==
    LET latStart == FAdd(NULL_ISLAND_LATLNG.lat, FMul(FromInt(j), TILE_DEGREES_DOUBLE))
        lngStart == FAdd(NULL_ISLAND_LATLNG.lng, FMul(FromInt(i), TILE_DEGREES_DOUBLE))
        latEnd == FAdd(NULL_ISLAND_LATLNG.lat, FMul(FromInt(j + 1), TILE_DEGREES_DOUBLE))
        lngEnd == FAdd(NULL_ISLAND_LATLNG.lng, FMul(FromInt(i + 1), TILE_DEGREES_DOUBLE))
    IN  [sw |-> [lat |-> latStart, lng |-> lngStart],
         ne |-> [lat |-> latEnd, lng |-> lngEnd]]

\* x / 2, which is exact
FHalf(x) == IF x.m = << >> THEN x ELSE [x EXCEPT !.e = @ - 1]

\* leaflet's LatLngBounds.getCenter, as drawCell takes the centre of a cell
\* (main.ts:339): the mean of the two corners
getCenter(bounds) ==
    [lat |-> FHalf(FAdd(bounds.sw.lat, bounds.ne.lat)),
     lng |-> FHalf(FAdd(bounds.sw.lng, bounds.ne.lng))]

\* the cell of INITIAL_PLAYER_LATLNG (36.997936938057016, -122.05703507501151)
\* on the earth-spanning grid, main.ts:38-41
InitialCellI == 0 - 1220571
InitialCellJ == 369979

\* the conversions are applied to the cells at most GridProbeRadius rows and
\* columns from the cell of INITIAL_PLAYER_LATLNG
GridProbeRadius == 5

GridProbeCells ==
    ((InitialCellI - GridProbeRadius)..(InitialCellI + GridProbeRadius))
        \X ((InitialCellJ - GridProbeRadius)..(InitialCellJ + GridProbeRadius))

\* a cell of the grid is chosen
GridInit ==
    /\ \E st \in {initializeGame(NoBlob, "absent", MaxViewHalf)} :
           Started(st, NoBlob, SwitchEvent("start", "welcome", st.inputs))
    /\ \E c \in GridProbeCells : probe = [i |-> c[1], j |-> c[2]]

\* the cell is converted to its bounds, and the two corners and the centre of
\* the bounds are converted back to cells
ConvertCell ==
    /\ DOMAIN probe = {"i", "j"}
    /\ \E bounds \in {gridCellToBounds(probe.i, probe.j)} :
           probe' = [i |-> probe.i, j |-> probe.j,
                     southWest |-> latLngToGridCellDouble(bounds.sw),
                     northEast |-> latLngToGridCellDouble(bounds.ne),
                     center |-> latLngToGridCellDouble(getCenter(bounds))]
    /\ UNCHANGED <<playerLatLng, heldToken, cellStates, modifiedCellStates, storage,
                   currentMovementStrategy, geo, inputs, mapCenter, playerMarker, newGames, last>>

GridNext == ConvertCell

SpecGrid == GridInit /\ [][GridNext]_vars

-----------------------------------------------------------------------------
(* getInitialTokenValue on every pair of hash values *)

\* getInitialTokenValue is called at most MaxSpawnCalls times for a cell
MaxSpawnCalls == 2

LuckValues == 0..(LuckScale - 1)

\* a cell of any spawn hash and any value-choice hash
SpawnInit ==
    /\ \E st \in {initializeGame(NoBlob, "absent", MaxViewHalf)} :
           Started(st, NoBlob, SwitchEvent("start", "welcome", st.inputs))
    /\ \E spawnLuck \in LuckValues, valueLuck \in LuckValues :
           probe = [spawnLuck |-> spawnLuck, valueLuck |-> valueLuck, results |-> << >>]

\* one more call for the cell
GetInitialTokenValue ==
    /\ Len(probe.results) < MaxSpawnCalls
    /\ probe' = [probe EXCEPT !.results =
                     Append(@, InitialTokenValue(probe.spawnLuck, probe.valueLuck))]
    /\ UNCHANGED <<playerLatLng, heldToken, cellStates, modifiedCellStates, storage,
                   currentMovementStrategy, geo, inputs, mapCenter, playerMarker, newGames, last>>

SpawnNext == GetInitialTokenValue

SpecSpawn == SpawnInit /\ [][SpawnNext]_vars

-----------------------------------------------------------------------------
(* The interaction rules of the earlier variants, unnamed/part_000 (fixed    *)
(* grid, player at the origin cell, 0 for empty) and unnamed/part_001        *)
(* (earth-spanning, not persisted, null for empty)                           *)

\* part_000:84-87
isCellNearby(i, j) == Abs(i) <= INTERACTION_RADIUS /\ Abs(j) <= INTERACTION_RADIUS

\* part_000:177-225: held value and ground value after a click on cell (i, j)
FixedGrid_handleCellClick(i, j, heldTokenValue, tokenValue) ==
    LET groundValue == tokenValue
        held == heldTokenValue
        same == [heldTokenValue |-> heldTokenValue, tokenValue |-> tokenValue]
    IN  IF ~isCellNearby(i, j)
        THEN same
        ELSE IF held > 0
        THEN IF groundValue > 0
             THEN IF held = groundValue
                  THEN [heldTokenValue |-> held * 2, tokenValue |-> 0]
                  ELSE same
             ELSE [heldTokenValue |-> 0, tokenValue |-> held]
        ELSE IF groundValue > 0
             THEN [heldTokenValue |-> groundValue, tokenValue |-> 0]
             ELSE same

\* part_001:287-358: held token and cell token after a click on cell (i, j)
EarthSpanning_handleCellClick(i, j, player, held, cellTokenValue) ==
    LET isCellEmpty == cellTokenValue = Null
        isPlayerHolding == held # Null
        same == [heldToken |-> held, tokenValue |-> cellTokenValue]
    IN  IF Distance(i, j, player) > INTERACTION_RADIUS
        THEN same
        ELSE IF ~isPlayerHolding /\ ~isCellEmpty
        THEN [heldToken |-> cellTokenValue, tokenValue |-> Null]
        ELSE IF isPlayerHolding /\ ~isCellEmpty
        THEN IF held = cellTokenValue
             THEN [heldToken |-> held * 2, tokenValue |-> Null]
             ELSE same
        ELSE IF isPlayerHolding /\ isCellEmpty
        THEN [heldToken |-> Null, tokenValue |-> held]
        ELSE same

\* the fixed-grid variant's number for a token value of the other two
ToZero(v) == IF v = Null THEN 0 ELSE v

\* token values 1..MaxRuleValue are tried, and the two around the win threshold
MaxRuleValue == 8

RuleValues == {Null} \cup 1..MaxRuleValue \cup {WIN_CONDITION \div 2, WIN_CONDITION}

\* clicked cells: the interaction square around the origin cell and one ring more
RuleCells == (0 - INTERACTION_RADIUS - 1)..(INTERACTION_RADIUS + 1)

\* a player in the origin cell, any held value, any cell and any value on it
RulesInit ==
    /\ \E st \in {initializeGame(NoBlob, "absent", MaxViewHalf)} :
           Started(st, NoBlob, SwitchEvent("start", "welcome", st.inputs))
    /\ \E i \in RuleCells, j \in RuleCells, held \in RuleValues, cell \in RuleValues :
           probe = [i |-> i, j |-> j, held |-> held, cell |-> cell, clicked |-> FALSE]

\* the same click handled by the three handleCellClick functions
ClickAllVariants ==
    /\ ~probe.clicked
    /\ probe' = [i |-> probe.i, j |-> probe.j, held |-> probe.held, cell |-> probe.cell,
                 clicked |-> TRUE,
                 canonical |-> handleCellClick(probe.i, probe.j, playerLatLng, probe.held,
                                               probe.cell, modifiedCellStates),
                 fixedGrid |-> FixedGrid_handleCellClick(probe.i, probe.j,
                                                         ToZero(probe.held),
                                                         ToZero(probe.cell)),
                 earthSpanning |-> EarthSpanning_handleCellClick(probe.i, probe.j,
                                                                 playerLatLng, probe.held,
                                                                 probe.cell)]
    /\ UNCHANGED <<playerLatLng, heldToken, cellStates, modifiedCellStates, storage,
                   currentMovementStrategy, geo, inputs, mapCenter, playerMarker, newGames, last>>

RulesNext == ClickAllVariants

SpecRules == RulesInit /\ [][RulesNext]_vars

-----------------------------------------------------------------------------
(* Properties *)

\* a click on cell c
Click(c) == HandleCellClick(c[1], c[2])

\* Chebyshev distance of cell c from the player's current cell
ChebyshevDistance(c) ==
    LET playerCell == latLngToGridCell(playerLatLng)
        di == c[1] - playerCell.i
        dj == c[2] - playerCell.j
    IN  Max(IF di < 0 THEN -di ELSE di, IF dj < 0 THEN -dj ELSE dj)

InRadius(c) == ChebyshevDistance(c) <= INTERACTION_RADIUS

\* the step leaves every cell other than c as it was, in both stores
OtherCellsUnchanged(c) ==
    /\ DOMAIN cellStates' = DOMAIN cellStates
    /\ \A d \in DOMAIN cellStates \ {c} : cellStates'[d] = cellStates[d]
    /\ \A d \in WorldCells \ {c} :
           MementoRecord(modifiedCellStates', d) = MementoRecord(modifiedCellStates, d)

\* C1: a click on an in-radius cell whose token equals the held token v leaves
\* the player holding 2v, the cell empty and the cell's memento entry null.
C1_Craft ==
    [][\A c \in ClickCells :
          (/\ last'.kind = "click" /\ Click(c) /\ InRadius(c)
           /\ heldToken # Null /\ cellStates[c] = heldToken)
          => /\ heldToken' = 2 * heldToken
             /\ cellStates'[c] = Null
             /\ MementoRecord(modifiedCellStates', c) = <<Null>>]_vars

C1_Witness ==
    /\ last.kind = "click" /\ last.message = "crafted"
    /\ heldToken = 2 * BASE_TOKEN_VALUES[1]

\* C2: a click on an in-radius cell whose token differs from the held token
\* changes neither the held token, the cell's value, the memento map nor the
\* stored blob; it shows the error message.
C2_RejectedCraft ==
    [][\A c \in ClickCells :
          (/\ last'.kind = "click" /\ Click(c) /\ InRadius(c) /\ heldToken # Null
           /\ cellStates[c] # Null /\ cellStates[c] # heldToken)
          => /\ UNCHANGED <<heldToken, cellStates, modifiedCellStates, storage>>
             /\ last'.message = "cannot craft"]_vars

C2_Witness ==
    /\ last.kind = "click" /\ last.message = "cannot craft"
    /\ heldToken # Null
    /\ \E c \in ClickCells \cap DOMAIN cellStates :
           InRadius(c) /\ cellStates[c] # Null /\ cellStates[c] # heldToken

\* C3: a click on a cell at Chebyshev distance above INTERACTION_RADIUS changes
\* neither the player's position, the held token, either cell store nor the
\* stored blob; a click at distance <= INTERACTION_RADIUS is never rejected for
\* distance.
C3_OutOfRadius ==
    [][\A c \in ClickCells :
          /\ (/\ last'.kind = "click" /\ Click(c)
              /\ ChebyshevDistance(c) > INTERACTION_RADIUS)
             => /\ UNCHANGED <<playerLatLng, heldToken, cellStates,
                               modifiedCellStates, storage>>
                /\ last'.message = "too far away"
          /\ (/\ last'.kind = "click" /\ Click(c)
              /\ ChebyshevDistance(c) <= INTERACTION_RADIUS)
             => last'.message # "too far away"]_vars

C3_Witness ==
    /\ last.kind = "click" /\ last.message = "too far away"
    /\ heldToken # Null
    /\ \E c \in ClickCells \cap DOMAIN cellStates :
           ChebyshevDistance(c) > INTERACTION_RADIUS /\ cellStates[c] # Null

\* C4: a click on an in-radius cell holding a token v, with an empty hand, sets
\* the held token to v, empties the cell and records null for it in the memento
\* map; no other cell's value or record changes.
C4_Pickup ==
    [][\A c \in ClickCells :
          (/\ last'.kind = "click" /\ Click(c) /\ InRadius(c)
           /\ heldToken = Null /\ cellStates[c] # Null)
          => /\ heldToken' = cellStates[c]
             /\ cellStates'[c] = Null
             /\ MementoRecord(modifiedCellStates', c) = <<Null>>
             /\ OtherCellsUnchanged(c)]_vars

C4_Witness ==
    /\ last.kind = "click" /\ last.message = "picked up"
    /\ heldToken # Null
    /\ MapSize(modifiedCellStates) > 1

\* C5: a click on an in-radius empty cell, holding a token v, sets the cell's
\* value to v, empties the hand and records v for the cell in the memento map;
\* no other cell's value or record changes.
C5_Place ==
    [][\A c \in ClickCells :
          (/\ last'.kind = "click" /\ Click(c) /\ InRadius(c)
           /\ heldToken # Null /\ cellStates[c] = Null)
          => /\ cellStates'[c] = heldToken
             /\ heldToken' = Null
             /\ MementoRecord(modifiedCellStates', c) = <<heldToken>>
             /\ OtherCellsUnchanged(c)]_vars

C5_Witness ==
    /\ last.kind = "click" /\ last.message = "placed"
    /\ heldToken = Null
    /\ MapSize(modifiedCellStates) > 1

\* C6: a cell id is a key of the memento map if and only if the cell's current
\* token value differs from its deterministic spawn value.
C6_MementoMinimal ==
    \A c \in WorldCells :
        MapHas(modifiedCellStates, c)
        <=> ResolveTokenValue(modifiedCellStates, c[1], c[2]) # getInitialTokenValue(c[1], c[2])

\* C7: a pickup followed at once by a place on the same cell restores the
\* cell's memento record (presence and value), its token value and the empty
\* hand.
C7_PickupPlaceRoundTrip ==
    (last.kind = "click" /\ last.message = "placed" /\ last.trip # NoTrip)
    => /\ MementoRecord(modifiedCellStates, last.trip[1]) = last.trip[2]
       /\ cellStates[last.trip[1]] = last.trip[3]
       /\ heldToken = Null

\* C8: a render pass gives every cell that has a memento entry that entry's
\* value, and the deterministic spawn value only to cells without an entry.
C8_RenderUsesMemento ==
    last.kind \in {"render", "reload", "start"}
    => \A c \in DOMAIN cellStates :
           cellStates[c] = IF MapHas(modifiedCellStates, c)
                           THEN MapGet(modifiedCellStates, c)
                           ELSE getInitialTokenValue(c[1], c[2])

C8_Witness ==
    /\ last.kind = "render"
    /\ playerLatLng # INITIAL_PLAYER_LATLNG
    /\ \E c \in DOMAIN cellStates :
           /\ MapHas(modifiedCellStates, c)
           /\ MapGet(modifiedCellStates, c) # getInitialTokenValue(c[1], c[2])
           /\ cellStates[c] = MapGet(modifiedCellStates, c)

\* C9: when the stored blob is the saved current state, a page reload restores
\* the same player position, held token and memento map (keys, order and
\* values, null included), so every cell resolves to the same value as before.
C9_SaveLoadRoundTrip ==
    [][(/\ last'.kind = "reload" /\ last'.message # "corrupted"
        /\ storage = saveGameState(playerLatLng, heldToken, modifiedCellStates))
       => /\ playerLatLng' = playerLatLng
          /\ heldToken' = heldToken
          /\ modifiedCellStates' = modifiedCellStates
          /\ \A c \in WorldCells :
                 ResolveTokenValue(modifiedCellStates', c[1], c[2])
                     = ResolveTokenValue(modifiedCellStates, c[1], c[2])
          /\ \A c \in DOMAIN cellStates' :
                 cellStates'[c] = ResolveTokenValue(modifiedCellStates, c[1], c[2])]_vars

C9_Witness ==
    /\ last.kind = "reload"
    /\ heldToken = 2 * BASE_TOKEN_VALUES[1]
    /\ MapSize(modifiedCellStates) = 2
    /\ \A c \in DOMAIN modifiedCellStates.vals : MapGet(modifiedCellStates, c) = Null
    /\ storage = saveGameState(playerLatLng, heldToken, modifiedCellStates)

\* C10: after every movement step, accepted position sample, pickup, place or
\* craft that changed the player position, the held token or the memento map,
\* the stored blob exists and is the serialization of the current state; a
\* stored blob always reloads to the current state.
C10_SavedAfterMutation ==
    [][/\ (/\ last'.kind \in {"click", "move", "sample"}
           /\ <<playerLatLng, heldToken, modifiedCellStates>>'
                  # <<playerLatLng, heldToken, modifiedCellStates>>)
          => /\ storage' # NoBlob
             /\ storage' = saveGameState(playerLatLng', heldToken', modifiedCellStates')
       /\ storage' # NoBlob
          => /\ loadGameState(storage').playerLatLng = playerLatLng'
             /\ loadGameState(storage').heldToken = heldToken'
             /\ loadGameState(storage').modifiedCellStates = modifiedCellStates']_vars

C10_Witness ==
    /\ last.kind = "move"
    /\ heldToken # Null
    /\ storage = saveGameState(playerLatLng, heldToken, modifiedCellStates)

\* C11: after loadGameState has failed on a stored blob, the blob is removed
\* and the in-memory state is the fresh default: the player at the initial
\* position, nothing held, the memento map empty.
C11_CorruptedLoadDefaults ==
    (last.kind = "reload" /\ last.message = "corrupted")
    => /\ storage = NoBlob
       /\ playerLatLng = INITIAL_PLAYER_LATLNG
       /\ heldToken = Null
       /\ modifiedCellStates = EmptyMap

\* C12: when startNewGame has completed, the stored blob is absent, the player
\* is at the initial position, nothing is held and the memento map is empty,
\* and a reload at that point starts from the defaults.
C12_NewGame ==
    last.kind = "newgame"
    => /\ storage = NoBlob
       /\ playerLatLng = INITIAL_PLAYER_LATLNG
       /\ heldToken = Null
       /\ modifiedCellStates = EmptyMap
       /\ \A movementParam \in MovementParams, h \in ViewHalves :
              LET st == initializeGame(storage, movementParam, h)
              IN  /\ ~st.loaded
                  /\ st.playerLatLng = INITIAL_PLAYER_LATLNG
                  /\ st.heldToken = Null
                  /\ st.modifiedCellStates = EmptyMap

\* a new game started from a game in progress: a cell still shows what the
\* player made of it
C12_Witness ==
    /\ last.kind = "newgame"
    /\ storage = NoBlob
    /\ modifiedCellStates = EmptyMap
    /\ \E c \in DOMAIN cellStates : cellStates[c] # getInitialTokenValue(c[1], c[2])

\* a step of toggleStrategy: the toggle button, or a permission error
ToggleStep ==
    \/ last'.kind = "toggle"
    \/ last'.kind = "error" /\ last'.message = "PERMISSION_DENIED"

\* C13: toggleStrategy leaves the player position, the held token, the
\* flyweight's token values, the memento map, the stored blob (and the map
\* view) unchanged; the active strategy changes.
C13_ToggleFrame ==
    [][ToggleStep
       => /\ UNCHANGED <<playerLatLng, heldToken, cellStates, modifiedCellStates,
                         storage, mapCenter>>
          /\ currentMovementStrategy' # currentMovementStrategy]_vars

C13_Witness ==
    /\ last.kind = "toggle"
    /\ currentMovementStrategy = "geolocation"
    /\ heldToken # Null
    /\ playerLatLng # INITIAL_PLAYER_LATLNG
    /\ storage = saveGameState(playerLatLng, heldToken, modifiedCellStates)

\* C14: a keydown handler is registered if and only if the current strategy
\* is buttons, a position watch is registered only if it is geolocation, at
\* most one handler and one watch exist, and a handler that switches the
\* strategy calls the old strategy's stop before the new strategy's init.
C14_OneActiveStrategy ==
    /\ (inputs.keydown # {}) <=> (currentMovementStrategy = "buttons")
    /\ (inputs.watches # {}) => (currentMovementStrategy = "geolocation")
    /\ geo.watching <=> (inputs.watches # {})
    /\ Cardinality(inputs.keydown) <= 1
    /\ Cardinality(inputs.watches) <= 1
    /\ \A n, m \in DOMAIN last.calls :
           (last.calls[n][1] = "stop" /\ last.calls[m][1] = "init") => n < m
    /\ last.kind \in {"toggle", "newgame"}
           => /\ Len(last.calls) = 2
              /\ last.calls[1][1] = "stop"
              /\ last.calls[2] = <<"init", currentMovementStrategy>>

\* after a new game, a toggle and a permission error
C14_Witness ==
    /\ last.kind = "error" /\ last.message = "PERMISSION_DENIED"
    /\ last.calls = <<<<"stop", "geolocation">>, <<"init", "buttons">>>>
    /\ newGames > 0
    /\ inputs.keydown # {} /\ inputs.watches = {}

\* distance (squared, in square decimetres) of a sample from the last accepted one
SampleDistanceSquared(newLatLng) ==
    DistanceToSquared(geo.lastReportedLatLng[1], newLatLng)

ThresholdSquared == (10 * TILE_THRESHOLD_METERS) * (10 * TILE_THRESHOLD_METERS)

\* the step accepts the sample: it becomes the player position and the last
\* accepted sample, and the moved player is saved
SampleAccepted(newLatLng) ==
    /\ playerLatLng' = newLatLng
    /\ geo'.lastReportedLatLng = <<newLatLng>>
    /\ storage' = IF newLatLng = playerLatLng THEN storage
                  ELSE saveGameState(newLatLng, heldToken, modifiedCellStates)

\* C15 as stated: a sample whose distance from the last accepted sample is at
\* or below the threshold changes neither the player position, the last
\* accepted sample nor the stored blob; a sample beyond it is accepted.
C15_Hysteresis_AsStated ==
    [][\A newLatLng \in GeoSamples :
          (last'.kind = "sample" /\ HandleSuccess(newLatLng))
          => IF SampleDistanceSquared(newLatLng) <= ThresholdSquared
             THEN UNCHANGED <<playerLatLng, geo, storage>>
             ELSE SampleAccepted(newLatLng)]_vars

\* C15, amended: a sample whose distance from the last accepted sample
\* (initially the player position when the strategy was started) is below the
\* threshold changes neither the player position, the last accepted sample
\* nor the stored blob; a sample at or beyond the threshold is accepted and
\* the player position is exactly that sample.
C15_Hysteresis ==
    [][\A newLatLng \in GeoSamples :
          (last'.kind = "sample" /\ HandleSuccess(newLatLng))
          => IF SampleDistanceSquared(newLatLng) < ThresholdSquared
             THEN UNCHANGED <<playerLatLng, geo, storage>>
             ELSE SampleAccepted(newLatLng)]_vars

\* an accepted sample exactly one threshold away from where the strategy started
C15_Witness ==
    /\ last.kind = "sample" /\ last.message = "moved"
    /\ geo.lastReportedLatLng = <<playerLatLng>>
    /\ DistanceToSquared(INITIAL_PLAYER_LATLNG, playerLatLng) = ThresholdSquared
    /\ storage = saveGameState(playerLatLng, heldToken, modifiedCellStates)

C17_WinAtSixteen ==
    (/\ last.kind = "click" /\ last.message \in {"crafted", "win"}
     /\ heldToken >= PLAN_WIN_VALUE)
    => last.message = "win"

\* a click on cell c in the play around the win threshold
WinClickOn(c) == WinClick(c[1], c[2])

\* the held token, or the token picked up, is at or above the win threshold
AtOrAboveWin(value) == value # Null /\ value >= WIN_CONDITION

\* C18: with the held token at or above the win threshold every directional
\* step inside the model's area stays enabled, and clicks follow the rules
\* that hold below the threshold: an in-radius click places the token on an
\* empty cell, doubles it on an equal cell, changes nothing on an unequal
\* cell, and with an empty hand picks a token of any value up again.
C18_WinIsAdvisory ==
    /\ [](AtOrAboveWin(heldToken)
            => \A direction \in Directions :
                   movePlayerTarget(playerLatLng, direction) \in Positions
                   => \A source \in InputSources : ENABLED MovePlayer(direction, source))
    /\ [][\A c \in ClickCells :
              (/\ last'.kind = "click" /\ WinClickOn(c) /\ InRadius(c)
               /\ \/ AtOrAboveWin(heldToken)
                  \/ heldToken = Null /\ AtOrAboveWin(cellStates[c]))
              => /\ (heldToken # Null /\ cellStates[c] = Null)
                      => /\ heldToken' = Null
                         /\ cellStates'[c] = heldToken
                         /\ MementoRecord(modifiedCellStates', c) = <<heldToken>>
                 /\ (heldToken # Null /\ cellStates[c] = heldToken)
                      => /\ heldToken' = 2 * heldToken
                         /\ cellStates'[c] = Null
                         /\ MementoRecord(modifiedCellStates', c) = <<Null>>
                 /\ (heldToken # Null /\ cellStates[c] \notin {Null, heldToken})
                      => UNCHANGED <<heldToken, cellStates, modifiedCellStates, storage>>
                 /\ heldToken = Null
                      => /\ heldToken' = cellStates[c]
                         /\ cellStates'[c] = Null
                         /\ MementoRecord(modifiedCellStates', c) = <<Null>>]_vars

\* a token crafted beyond the win threshold has been placed and picked up again
C18_Witness ==
    /\ last.kind = "click" /\ last.message = "picked up"
    /\ last.trip # NoTrip /\ last.trip[2] = <<MaxWinToken>>
    /\ heldToken = MaxWinToken

\* C19: every change of the player's position (a directional step, an
\* accepted sample, the reset of a new game) pans the view to the new
\* position; the pan's 'moveend' is what runs the render pass around it.
C19_PositionChangePans ==
    [][(/\ last'.kind \in {"move", "sample", "newgame"}
        /\ playerLatLng' # playerLatLng)
       => mapCenter' = playerLatLng']_vars

\* C20: the page starts with the geolocation strategy if and only if the
\* 'movement' query parameter is "geolocation"; with "buttons", without the
\* parameter and with any other value it starts with buttons, whether or not
\* a saved state was loaded.
C20_StartupStrategy ==
    [][\A movementParam \in MovementParams, h \in ViewHalves :
          (last'.kind = "reload" /\ last'.message # "corrupted")
          => \/ /\ (currentMovementStrategy' = "geolocation")
                       <=> (movementParam = "geolocation")
                /\ (currentMovementStrategy' = "buttons")
                       <=> (movementParam \in {"buttons", "absent", "other"})
             \/ ~Reload(movementParam, h)]_vars

\* a saved game opened with movement=geolocation, and a fresh one
C20_Witness ==
    /\ last.kind = "reload" /\ last.message = ""
    /\ currentMovementStrategy = "geolocation"
    /\ geo.watching
    /\ heldToken # Null

\* C21: every cell (i, j) converted to its bounds and back gives (i, j) for
\* the south-west corner, (i + 1, j + 1) for the north-east corner and (i, j)
\* for the centre of the bounds
C21_CoordinateRoundTrip ==
    "center" \in DOMAIN probe
        => /\ probe.southWest = [i |-> probe.i, j |-> probe.j]
           /\ probe.northEast = [i |-> probe.i + 1, j |-> probe.j + 1]
           /\ probe.center = [i |-> probe.i, j |-> probe.j]

RenderWindow(center, h) ==
    LET southWest == latLngToGridCell(LatLng(center.lat - h, center.lng - h))
        northEast == latLngToGridCell(LatLng(center.lat + h, center.lng + h))
    IN  {c \in WorldCells : /\ c[1] \in (southWest.i - 1)..(northEast.i + 1)
                            /\ c[2] \in (southWest.j - 1)..(northEast.j + 1)}

\* C23: after a render pass the key set of the Cell State Store is exactly
\* the render window of the viewport, whatever the store held before
C23_RenderWindow ==
    [][\A h \in ViewHalves :
          (last'.kind = "render" /\ RenderVisibleCells(h))
              => DOMAIN cellStates' = RenderWindow(mapCenter, h)]_vars

\* a render pass, after some interaction, whose window leaves out a cell of
\* the modelled grid
C23_Witness ==
    /\ last.kind = "render"
    /\ \E h \in ViewHalves : DOMAIN cellStates = RenderWindow(mapCenter, h)
    /\ \E c \in WorldCells : c \notin DOMAIN cellStates
    /\ modifiedCellStates # EmptyMap

\* one listener of each source while the buttons strategy is active, none
\* while the geolocation strategy is active
OneListenerPerSource ==
    \A source \in InputSources :
        Listeners(inputs, source) = IF currentMovementStrategy = "buttons" THEN 1 ELSE 0

\* the step of one input event: one cell along one axis
OneStep ==
    \/ /\ Abs(playerLatLng'.lat - playerLatLng.lat) = TILE_DEGREES
       /\ playerLatLng'.lng = playerLatLng.lng
    \/ /\ Abs(playerLatLng'.lng - playerLatLng.lng) = TILE_DEGREES
       /\ playerLatLng'.lat = playerLatLng.lat

\* C24: whatever toggles and new games came before, a directional input event
\* is handled only while the buttons strategy is active and by exactly one
\* listener; it moves the player one cell along one axis and leaves the held
\* token and the token values of both cell stores as they were
C24_DiscreteMovement ==
    /\ []OneListenerPerSource
    /\ [][last'.kind = "move"
            => /\ currentMovementStrategy = "buttons"
               /\ OneStep
               /\ UNCHANGED <<heldToken, cellStates, modifiedCellStates>>]_vars

\* a step taken after a new game, with a token in hand
C24_Witness ==
    /\ last.kind = "move"
    /\ newGames > 0
    /\ heldToken # Null
    /\ playerLatLng # INITIAL_PLAYER_LATLNG

\* C25: a success or error callback of a watch that is delivered after its
\* strategy was stopped changes neither the player position nor the active
\* movement strategy
C25_StaleCallbacks ==
    [][last'.kind = "stale" => UNCHANGED <<playerLatLng, currentMovementStrategy>>]_vars

\* 1, 2, 4, ... up to the largest token of the model
IsPowerOfTwo(value) == \E n \in 0..MaxTokenLog : value = Pow2(n)

\* the single inventory slot, or a cell, holds nothing or one token
NoneOrPowerOfTwo(value) == value = Null \/ IsPowerOfTwo(value)

\* C26: in every state reached from a fresh game the player's one inventory
\* slot is empty or holds a power of two, and so is every cell, in the Cell
\* State Store and in the Modified-Cell Store
C26_TokenValues ==
    /\ NoneOrPowerOfTwo(heldToken)
    /\ \A c \in DOMAIN cellStates : NoneOrPowerOfTwo(cellStates[c])
    /\ \A c \in WorldCells : NoneOrPowerOfTwo(ResolveTokenValue(modifiedCellStates, c[1], c[2]))

\* two crafts have made the largest token of the model, which now lies on a cell
C26_Witness ==
    /\ heldToken = Null
    /\ \E c \in DOMAIN cellStates :
           /\ cellStates[c] = MaxToken
           /\ MapHas(modifiedCellStates, c) /\ MapGet(modifiedCellStates, c) = MaxToken

\* C27: between handlers every cell of the Cell State Store holds the value
\* of its Modified-Cell Store entry when it has one and its deterministic
\* spawn value otherwise
C27_CellStoreConsistency ==
    \A c \in DOMAIN cellStates :
        cellStates[c] = ResolveTokenValue(modifiedCellStates, c[1], c[2])

\* the value every cell resolves to: its Modified-Cell Store entry when it
\* has one, its spawn value otherwise
ResolvedCells == [c \in WorldCells |-> ResolveTokenValue(modifiedCellStates, c[1], c[2])]

\* the tokens of value `value`: in the hand and on the cells
TokensOf(value) ==
    Cardinality({c \in WorldCells : ResolvedCells[c] = value})
      + IF heldToken = value THEN 1 ELSE 0

\* the sum of the values of the tokens of value 2^0 .. 2^n
RECURSIVE SumUpTo(_)
SumUpTo(n) == IF n < 0 THEN 0 ELSE Pow2(n) * TokensOf(Pow2(n)) + SumUpTo(n - 1)

\* every token has one of the values 2^0 .. 2^MaxTokenLog
TokenSum == SumUpTo(MaxTokenLog)

TokenCount ==
    Cardinality({c \in WorldCells : ResolvedCells[c] # Null})
      + IF heldToken # Null THEN 1 ELSE 0

\* the store holds the game in memory: its blob, or no blob for a game in
\* which no token has been moved
GameIsStored ==
    \/ storage = saveGameState(playerLatLng, heldToken, modifiedCellStates)
    \/ storage = NoBlob /\ heldToken = Null /\ modifiedCellStates = EmptyMap

\* the handlers of one game: everything but the new game, and of the
\* openings of the page those that find the game stored
WithinOneGame ==
    \/ last'.kind \in {"click", "move", "sample", "error", "toggle", "render"}
    \/ last'.kind = "reload" /\ last'.message # "corrupted" /\ GameIsStored

\* C28: no handler of one game changes the sum of the held token and of all
\* cells or adds a token, and a craft takes exactly one token away
C28_TokenConservation ==
    [][WithinOneGame
          => /\ TokenSum' = TokenSum
             /\ TokenCount' <= TokenCount
             /\ (last'.kind = "click" /\ last'.message = "crafted")
                    => TokenCount' = TokenCount - 1]_vars

\* C29: between handlers the player's marker is at the player's position:
\* after startup, also with a loaded saved state, after every movement and
\* after a new game
C29_PlayerMarker == playerMarker = playerLatLng

\* a click of the rule specification that has been handled
RuleClicked == probe # NoProbe /\ "clicked" \in DOMAIN probe /\ probe.clicked

\* C30: for every held value, cell value and in-radius click, the fixed-grid
\* variant (0 for empty) and the earth-spanning variant leave the same held
\* value and the same cell value as handleCellClick of main.ts
C30_RuleVariantsAgree ==
    (RuleClicked /\ Distance(probe.i, probe.j, playerLatLng) <= INTERACTION_RADIUS) =>
        /\ probe.fixedGrid.heldTokenValue = ToZero(probe.canonical.heldToken)
        /\ probe.fixedGrid.tokenValue = ToZero(probe.canonical.tokenValue)
        /\ probe.earthSpanning.heldToken = probe.canonical.heldToken
        /\ probe.earthSpanning.tokenValue = probe.canonical.tokenValue

\* two equal tokens crafted at the edge of the radius, across the win
\* threshold, by all three variants
C30_Witness ==
    /\ RuleClicked
    /\ Distance(probe.i, probe.j, playerLatLng) = INTERACTION_RADIUS
    /\ probe.held = WIN_CONDITION \div 2
    /\ probe.cell = probe.held
    /\ probe.canonical.heldToken = WIN_CONDITION
    /\ probe.canonical.tokenValue = Null
    /\ probe.fixedGrid.heldTokenValue = WIN_CONDITION
    /\ probe.earthSpanning.heldToken = WIN_CONDITION

====
